---- MODULE Spec2Model ----
(***************************************************************************)
(* A model of wleeym08/ping (src/main.go): the probe loop of main,         *)
(* pingForTimes and pingForever, one probe attempt (pingOnce) with its     *)
(* raw connection, receive buffer and read deadline, the echo codec at     *)
(* the level of bytes, and the signal-forwarding goroutine.                *)
(*                                                                         *)
(* Time is counted in ticks; TicksPerSecond ticks make one second.  A      *)
(* timestamp in nanoseconds and an RTT in milliseconds are both carried    *)
(* as a number of ticks (a change of unit, nothing else).                  *)
(***************************************************************************)
EXTENDS Integers, Sequences, FiniteSets, TLC

\* ---------------------------------------------------------------- bounds
\* Largest -c count explored, and the cap on iterations of pingForever.
MaxProbes == 2
\* Ticks per second: the granularity of the clock.
TicksPerSecond == 2
\* Largest delay, in ticks, between two readings of the clock inside the
\* receive loop (parsing, scheduling).
MaxLag == 1
\* Signals delivered to the process during one run.
MaxSignals == 2

\* ----------------------------------------------------- program constants
\* size := 56 (main), the dataSize of every echo.
DataSize == 56
\* timeout := time.Second (pingOnce), in seconds.
TimeoutSeconds == 1
\* time.Sleep(time.Second) in the probe loops, in seconds.
SleepSeconds == 1
\* make([]byte, 8): the timestamp at the head of the echo data.
TimestampLen == 8
\* data = make([]byte, size + 20): room for the IPv4 header.
IPv4HeaderRoom == 20
\* body = body[4:]: the identifier and sequence number of the echo body.
EchoPrefixLen == 4
\* icmp.ParseMessage(1, ...): the protocol number of ICMP.
ProtoICMP == 1
\* icmp.ParseMessage(58, ...): the protocol number of ICMPv6.
ProtoICMPv6 == 58
\* sigCh := make(chan os.Signal, 1)
SigChCap == 1
\* done := make(chan bool, 1)
DoneCap == 1

Timeout == TimeoutSeconds * TicksPerSecond
SleepTicks == SleepSeconds * TicksPerSecond

\* --------------------------------------------------- environment inputs
\* os.Getpid() of the process.
Pids == {4660}
\* Hop counts with which replies reach the host.
ReplyTTLs == {64}
\* The clock reading when main starts.
StartTimes == {10}
\* len(flag.Args()).
ArgCounts == 0..2
\* *count, the value of -c.
Counts == -1..MaxProbes

\* ------------------------------------------------------------ ICMP types
ICMPTypeEcho == 8
ICMPTypeEchoReply4 == 0
ICMPTypeExtendedEchoRequest4 == 42
ICMPTypeEchoRequest6 == 128
ICMPTypeEchoReply6 == 129
ICMPTypeExtendedEchoRequest6 == 160
\* The version an ICMP extension header must carry.
ExtensionVersion == 2
\* ipv4.HeaderLen and ipv6.HeaderLen.
IPv4HeaderLen == 20
IPv6HeaderLen == 40

\* ----------------------------------------------------------------- bytes
Zeros(n) == [k \in 1..n |-> 0]

\* strings.Repeat(" ", n)
Spaces(n) == [k \in 1..n |-> 32]

\* The low byte of v alone, the other n - 1 bytes zero.
LittleEndianPutLowByte(v, n) ==
    IF n = 0 THEN << >> ELSE <<v % 256>> \o Zeros(n - 1)

RECURSIVE LittleEndianPut(_, _)
\* binary.LittleEndian.PutUint64 (n = 8): the n low bytes of v, lowest first.
LittleEndianPut(v, n) ==
    IF n = 0 THEN << >> ELSE <<v % 256>> \o LittleEndianPut(v \div 256, n - 1)

RECURSIVE LittleEndianFrom(_, _)
LittleEndianFrom(b, k) ==
    IF k > Len(b) THEN 0 ELSE b[k] + 256 * LittleEndianFrom(b, k + 1)

\* binary.LittleEndian.Uint64(b)
LittleEndianUint(b) == LittleEndianFrom(b, 1)

\* The two bytes of a 16-bit field, high byte first.
BigEndian16(v) == <<(v % 65536) \div 256, v % 256>>

BigEndianUint16(b, k) == b[k] * 256 + b[k + 1]

RECURSIVE WordSum(_, _)
WordSum(b, k) ==
    IF k > Len(b) THEN 0
    ELSE IF k = Len(b) THEN b[k] * 256
    ELSE b[k] * 256 + b[k + 1] + WordSum(b, k + 2)

RECURSIVE Fold16(_)
Fold16(s) == IF s < 65536 THEN s ELSE Fold16((s % 65536) + (s \div 65536))

\* The Internet checksum of b.
Checksum(b) == 65535 - Fold16(WordSum(b, 1))

\* ----------------------------------------------------------------- codec
\* (*icmp.Echo).Marshal: identifier, sequence number, data.
EchoMarshal(id, seq, d) == BigEndian16(id) \o BigEndian16(seq) \o d

\* (*icmp.Message).Marshal(nil): type, code 0, checksum, body.  The ICMPv6
\* checksum is left zero for the kernel, which computes it over the
\* pseudo-header.
MessageMarshal(proto, type, body) ==
    LET raw == <<type, 0, 0, 0>> \o body
        c == IF proto = ProtoICMP THEN Checksum(raw) ELSE 0
    IN <<type, 0, c \div 256, c % 256>> \o body

EchoRequestType(v6) == IF v6 THEN ICMPTypeEchoRequest6 ELSE ICMPTypeEcho
EchoReplyType(v6) == IF v6 THEN ICMPTypeEchoReply6 ELSE ICMPTypeEchoReply4
ExtendedEchoRequestType(v6) ==
    IF v6 THEN ICMPTypeExtendedEchoRequest6 ELSE ICMPTypeExtendedEchoRequest4
Proto(v6) == IF v6 THEN ProtoICMPv6 ELSE ProtoICMP

\* The Data of the echo: the timestamp, then the padding.
EchoData(t, dataSize) ==
    LittleEndianPut(t, TimestampLen) \o Spaces(dataSize - TimestampLen)

\* echo(seq, isIPv6, dataSize) at clock reading t, for process id p.
echo(seq, v6, dataSize, t, p) ==
    MessageMarshal(Proto(v6), EchoRequestType(v6),
                   EchoMarshal(p % 65536, seq, EchoData(t, dataSize)))

\* icmp.ParseIPv4Header(b)
ParseIPv4Header(b) ==
    IF Len(b) < IPv4HeaderLen THEN [err |-> "header", Len |-> 0, TTL |-> 0]
    ELSE LET hdrlen == (b[1] % 16) * 4
         IN IF hdrlen > Len(b) THEN [err |-> "header", Len |-> 0, TTL |-> 0]
            ELSE [err |-> "nil", Len |-> hdrlen, TTL |-> b[9]]

\* ipv6.ParseHeader(b)
ParseIPv6Header(b) ==
    IF Len(b) < IPv6HeaderLen THEN [err |-> "header", HopLimit |-> 0]
    ELSE [err |-> "nil", HopLimit |-> b[8]]

NoMessage == [err |-> "message", Type |-> -1, echo |-> FALSE, Body |-> << >>]

\* icmp.ParseMessage(proto, b).  Body is the message after its 4-byte
\* header; echo tells whether it was parsed into an *icmp.Echo.
ParseMessage(proto, b) ==
    IF Len(b) < 4 THEN NoMessage
    ELSE LET type == b[1]
             body == SubSeq(b, 5, Len(b))
             v6 == (proto = ProtoICMPv6)
         IN IF type \in {EchoRequestType(v6), EchoReplyType(v6)}
            THEN IF Len(body) < 4 THEN NoMessage
                 ELSE [err |-> "nil", Type |-> type, echo |-> TRUE, Body |-> body]
            ELSE IF type = ExtendedEchoRequestType(v6)
            THEN IF Len(body) < 8 \/ body[5] \div 16 # ExtensionVersion
                 THEN NoMessage
                 ELSE [err |-> "nil", Type |-> type, echo |-> FALSE, Body |-> body]
            ELSE [err |-> "nil", Type |-> type, echo |-> FALSE, Body |-> body]

\* replyMsg.Body.Marshal(proto) of a parsed *icmp.Echo: identifier,
\* sequence number and data again.
BodyMarshal(m) ==
    EchoMarshal(BigEndianUint16(m.Body, 1), BigEndianUint16(m.Body, 3),
                SubSeq(m.Body, 5, Len(m.Body)))

\* replyMsg.Type == ipv4.ICMPTypeEchoReply || == ipv6.ICMPTypeEchoReply, for
\* a message parsed under proto.
IsEchoReply(proto, m) ==
    \/ proto = ProtoICMP /\ m.Type = ICMPTypeEchoReply4
    \/ proto = ProtoICMPv6 /\ m.Type = ICMPTypeEchoReply6

\* c.Read(data): the packet overwrites the head of the buffer; what does
\* not fit is dropped, what it does not reach keeps its old content.
ReadInto(buf, pkt) ==
    [k \in 1..Len(buf) |-> IF k <= Len(pkt) THEN pkt[k] ELSE buf[k]]


\* --------------------------------------------------------------- packets
\* The IPv4 header (no options) the kernel hands over in front of an ICMP
\* message of n bytes that arrived with the given TTL.
IPv4Header(t, n) ==
    LET total == IPv4HeaderLen + n
        raw == <<69, 0, total \div 256, total % 256, 0, 0, 0, 0, t, ProtoICMP,
                 0, 0, 192, 0, 2, 1, 192, 0, 2, 2>>
        c == Checksum(raw)
    IN [raw EXCEPT ![11] = c \div 256, ![12] = c % 256]

\* What c.Read copies out of an arrived packet: an IPv4 raw socket hands over
\* the IP header and the ICMP message, an IPv6 raw socket the message alone.
Wire(v6, p) ==
    IF v6 THEN p.icmp ELSE IPv4Header(p.hlim, Len(p.icmp)) \o p.icmp

\* An Extended Echo Request whose extension header carries version 0.
BadExtension(v6, p, seq) ==
    MessageMarshal(Proto(v6), ExtendedEchoRequestType(v6),
                   BigEndian16(p % 65536) \o <<seq % 256, 0>> \o Zeros(4))

\* The Echo Reply a destination returns for the Echo Request req: the type
\* changed, the body kept, the checksum computed anew.
ReplyTo(v6, req) ==
    MessageMarshal(Proto(v6), EchoReplyType(v6), SubSeq(req, 5, Len(req)))

\* The Echo Request req as another process, with the next process id, would
\* have sent it.
Foreign(v6, p, req) ==
    MessageMarshal(Proto(v6), EchoRequestType(v6),
                   EchoMarshal((p + 1) % 65536, BigEndianUint16(req, 7),
                               SubSeq(req, 9, Len(req))))

\* The requests written by the attempts before the running one.
Earlier(ws) == { ws[k] : k \in 1..(Len(ws) - 1) } \ {<< >>}

\* The packets that can arrive on the raw socket while the probe with
\* request req (empty when nothing was composed) and sequence number seq
\* waits: the Echo Reply to the request, the request itself (looped back by
\* a local destination), an Echo Reply cut short after the sequence number,
\* a message that does not parse, the Echo Reply to a request of an earlier
\* attempt (a raw socket receives every ICMP message the host receives),
\* and the Echo Reply to the request of another process.
Arrivals(v6, p, seq, req, earlier) ==
    LET proto == Proto(v6)
        answered == IF req = << >> THEN {}
            ELSE { [kind |-> "reply", hlim |-> h,
                    icmp |-> MessageMarshal(proto, EchoReplyType(v6),
                                            SubSeq(req, 5, Len(req)))]
                   : h \in ReplyTTLs }
                 \cup { [kind |-> "request", hlim |-> h, icmp |-> req]
                        : h \in ReplyTTLs }
        others == { [kind |-> "short", hlim |-> h,
                     icmp |-> MessageMarshal(proto, EchoReplyType(v6),
                                             EchoMarshal(p % 65536, seq, << >>))]
                    : h \in ReplyTTLs }
                  \cup { [kind |-> "badext", hlim |-> h,
                          icmp |-> BadExtension(v6, p, seq)]
                         : h \in ReplyTTLs }
        late == { [kind |-> "late", hlim |-> h, icmp |-> ReplyTo(v6, e)]
                  : h \in ReplyTTLs, e \in earlier }
        foreign == IF req = << >> THEN {}
            ELSE { [kind |-> "foreign", hlim |-> h,
                    icmp |-> ReplyTo(v6, Foreign(v6, p, req))]
                   : h \in ReplyTTLs }
    IN answered \cup others \cup late \cup foreign

NoPacket == [kind |-> "none", hlim |-> 0, icmp |-> << >>]

\* ----------------------------------------------------------------- state
VARIABLES
    nargs,      \* len(flag.Args())
    hostOk,     \* resolve(host) found an address
    count,      \* *count
    isIPv6,     \* the IP version resolve reported
    pid,        \* os.Getpid()
    now,        \* the clock
    pc,         \* where the main goroutine stands
    i,          \* the loop variable of pingForTimes / pingForever
    trans,      \* s.trans
    recv,       \* s.recv
    rtts,       \* s.rtts
    ttl,        \* pingOnce's result ttl
    rtt,        \* pingOnce's result rtt
    err,        \* pingOnce's result err ("nil" for nil)
    open,       \* raw connections dialed and not yet closed
    deferred,   \* defer c.Close() is pending in the running pingOnce
    echoMsg,    \* pingOnce's echoMsg
    size,       \* pingOnce's size
    data,       \* pingOnce's receive buffer
    startTime,  \* pingOnce's startTime
    deadline,   \* the read deadline of the connection
    registered, \* signal.Notify has been called
    sigCh,      \* values queued on sigCh
    done,       \* values queued on done
    gpc,        \* where the signal-forwarding goroutine stands
    nsig,       \* signals delivered so far
    dials,      \* history: calls of net.Dial
    writes,     \* history: calls of c.Write
    seqs,       \* history: the sequence numbers passed to pingOnce
    notices,    \* history: "Request timeout" lines printed
    statsCount, \* history: calls of stats
    lastPkt,    \* history: the packet the last c.Read of the attempt returned
    skipped,    \* history: the running attempt has skipped a message
    sendTime,   \* history: the sendTime decoded from the reply last read
    snap,       \* history: recv, rtts and trans when the iteration began
    sleepCancel, \* history: set when done is raised during the loop's sleep
    raised,     \* history: the run as it stood when done was raised
    sent,       \* history: the requests written so far
    report      \* what stats printed

mainVars == <<pc, i, trans, recv, rtts>>
resultVars == <<ttl, rtt, err>>
connVars == <<open, deferred, deadline>>
localVars == <<echoMsg, size, data, startTime>>
inputVars == <<nargs, hostOk, count, isIPv6, pid>>
signalVars == <<registered, sigCh, done, gpc, nsig>>
historyVars == <<dials, writes, sent, seqs, notices, statsCount, report,
                 lastPkt, skipped, sendTime, snap, sleepCancel, raised>>
vars == <<inputVars, now, mainVars, resultVars, connVars, localVars,
          signalVars, historyVars>>

NoSnap == [recv |-> 0, rtts |-> << >>, trans |-> 0]
NoCancel == [on |-> FALSE, dials |-> 0, writes |-> 0, trans |-> 0]
NoRaise == [on |-> FALSE, inflight |-> FALSE, dials |-> 0, trans |-> 0,
            recv |-> 0, rtts |-> << >>]
NoReport == [printed |-> FALSE, trans |-> 0, recv |-> 0, lossKind |-> "none",
             lossNum |-> 0, lossDen |-> 0, min |-> 0, max |-> 0, sum |-> 0,
             sqsum |-> 0]

Init ==
    /\ nargs \in ArgCounts
    /\ hostOk \in BOOLEAN
    /\ count \in Counts
    /\ isIPv6 \in BOOLEAN
    /\ pid \in Pids
    /\ now \in StartTimes
    /\ pc = "main"
    /\ i = 0 /\ trans = 0 /\ recv = 0 /\ rtts = << >>
    /\ ttl = 0 /\ rtt = 0 /\ err = "nil"
    /\ open = 0 /\ deferred = FALSE /\ deadline = 0
    /\ echoMsg = << >> /\ size = 0 /\ data = << >> /\ startTime = 0
    /\ registered = FALSE /\ sigCh = 0 /\ done = 0 /\ gpc = "idle" /\ nsig = 0
    /\ dials = 0 /\ writes = 0 /\ seqs = << >> /\ notices = 0
    /\ statsCount = 0 /\ lastPkt = NoPacket /\ skipped = FALSE
    /\ sendTime = 0
    /\ snap = NoSnap /\ sleepCancel = NoCancel
    /\ raised = NoRaise /\ sent = << >> /\ report = NoReport


\* The main goroutine is still running.
Alive == pc \notin {"exit", "panic", "killed"}

\* The main goroutine is inside pingOnce.
InPingOnce == pc \in {"echo", "write", "guard", "read", "decode", "blocked"}

\* ------------------------------------------------------------------ main
\* len(flag.Args()) != 1, or ip == nil after resolve: main returns.
ArgsRejectedHostIgnored(n, h) == n # 1

ArgsRejected(n, h) == n # 1 \/ ~h

\* main up to the resolution of the host: a wrong number of arguments and an
\* unknown host end the program.
MainStart ==
    /\ pc = "main"
    /\ pc' = IF ArgsRejected(nargs, hostOk) THEN "exit" ELSE "setup"
    /\ UNCHANGED <<inputVars, now, i, trans, recv, rtts, resultVars,
                   connVars, localVars, signalVars, historyVars>>

\* The channels, signal.Notify, the forwarding goroutine, the statsData and
\* the banner.
Setup ==
    /\ pc = "setup"
    /\ registered' = TRUE
    /\ sigCh' = 0 /\ done' = 0
    /\ gpc' = "recv"
    /\ trans' = 0 /\ recv' = 0 /\ rtts' = << >>
    /\ pc' = "mode"
    /\ UNCHANGED <<inputVars, now, i, resultVars, connVars, localVars, nsig,
                   historyVars>>

\* *count != 0 and *count < 0: main returns.
CountRejectedNever(c) == FALSE

CountRejected(c) == c # 0 /\ c < 0

\* The choice between pingForTimes and pingForever; a negative count ends
\* the program.
Mode ==
    /\ pc = "mode"
    /\ pc' = IF CountRejected(count) THEN "exit" ELSE "loop"
    /\ i' = 0
    /\ UNCHANGED <<inputVars, now, trans, recv, rtts, resultVars, connVars,
                   localVars, signalVars, historyVars>>

\* ------------------------------------------------------------ probe loop
\* The loop condition: i < count in pingForTimes (count # 0), none in
\* pingForever (count = 0).
LoopContinuesInclusive(iv, c) == c = 0 \/ iv <= c

LoopContinues(iv, c) == c = 0 \/ iv < c

\* for i := 0; i < count; i++ of pingForTimes, for i := 0; ; i++ of
\* pingForever (explored for MaxProbes iterations).
LoopHead ==
    /\ pc = "loop"
    /\ IF ~LoopContinues(i, count)
       THEN /\ pc' = "stats"
            /\ UNCHANGED snap
       ELSE /\ i < MaxProbes
            /\ pc' = "dial"
            /\ snap' = [recv |-> recv, rtts |-> rtts, trans |-> trans]
    /\ UNCHANGED <<inputVars, now, i, trans, recv, rtts, resultVars,
                   connVars, localVars, signalVars, dials, writes, sent,
                   seqs, notices, statsCount, report, lastPkt, skipped,
                   sendTime, sleepCancel, raised>>

\* The open connections once the deferred calls of pingOnce have run.
AfterCloseLeak(o, d) == o

AfterClose(o, d) == IF d THEN o - 1 ELSE o

\* pingOnce is left: the deferred c.Close() runs and the locals die.
Release ==
    /\ open' = AfterClose(open, deferred)
    /\ deferred' = FALSE
    /\ deadline' = 0
    /\ echoMsg' = << >> /\ size' = 0 /\ data' = << >> /\ startTime' = 0

\* pingOnce returns to the probe loop.
Return ==
    /\ Release
    /\ pc' = "check"

\* pingOnce from its entry to defer c.Close().
Dial ==
    /\ pc = "dial"
    /\ ttl' = 0 /\ rtt' = 0
    /\ dials' = dials + 1
    /\ seqs' = Append(seqs, i)
    /\ skipped' = FALSE /\ lastPkt' = NoPacket /\ sendTime' = 0
    /\ \/ /\ err' = "nil"
          /\ open' = open + 1
          /\ deferred' = TRUE
          /\ pc' = "echo"
          /\ UNCHANGED <<deadline, localVars>>
       \/ /\ err' = "dial"
          /\ Return
    /\ UNCHANGED <<inputVars, now, i, trans, recv, rtts, signalVars, writes,
                   sent, notices, statsCount, report, snap, sleepCancel,
                   raised>>

\* echoMsg, err := echo(seq, isIPv6, dataSize)
Echo ==
    /\ pc = "echo"
    /\ \/ /\ echoMsg' = echo(i, isIPv6, DataSize, now, pid)
          /\ err' = "nil"
       \/ /\ echoMsg' = << >>
          /\ err' = "marshal"
    /\ pc' = "write"
    /\ UNCHANGED <<inputVars, now, i, trans, recv, rtts, ttl, rtt, connVars,
                   size, data, startTime, signalVars, historyVars>>

\* c.SetReadDeadline(startTime.Add(timeout)); 0 stands for no deadline.
ReadDeadlineNone(start) == 0

ReadDeadline(start) == start + Timeout

\* size, err := c.Write(echoMsg), the receive buffer, startTime and the
\* read deadline.
Write ==
    /\ pc = "write"
    /\ writes' = writes + 1
    /\ \/ /\ err' = "write"
          /\ Return
          /\ UNCHANGED sent
       \/ /\ err' = "nil"
          /\ sent' = Append(sent, echoMsg)
          /\ size' = Len(echoMsg)
          /\ data' = IF isIPv6 THEN Zeros(Len(echoMsg))
                     ELSE Zeros(Len(echoMsg) + IPv4HeaderRoom)
          /\ startTime' = now
          /\ deadline' = ReadDeadline(now)
          /\ pc' = "guard"
          /\ UNCHANGED <<open, deferred, echoMsg>>
    /\ UNCHANGED <<inputVars, now, i, trans, recv, rtts, ttl, rtt,
                   signalVars, dials, seqs, notices, statsCount, report,
                   lastPkt, skipped, sendTime, snap, sleepCancel, raised>>

\* for time.Now().Sub(startTime) < timeout: the clock is read after a lag.
Guard ==
    /\ pc = "guard"
    /\ \E lag \in 0..MaxLag :
          /\ now' = now + lag
          /\ IF now' - startTime < Timeout
             THEN /\ pc' = "read"
                  /\ UNCHANGED <<connVars, localVars>>
             ELSE Return
    /\ UNCHANGED <<inputVars, i, trans, recv, rtts, resultVars, signalVars,
                   historyVars>>

\* _, err = c.Read(data): a packet arrives before the deadline, or the
\* deadline passes, or the read fails.  A read into an empty buffer returns
\* at once.  Without a deadline a read for which nothing arrives stays
\* blocked.
Read ==
    /\ pc = "read"
    /\ IF Len(data) = 0
       THEN /\ err' = "nil"
            /\ pc' = "decode"
            /\ UNCHANGED <<now, connVars, localVars, lastPkt>>
       ELSE \/ /\ deadline = 0
               /\ pc' = "blocked"
               /\ UNCHANGED <<now, err, connVars, localVars, lastPkt>>
            \/ /\ deadline = 0
               /\ \E d \in 0..MaxLag :
                  \E p \in Arrivals(isIPv6, pid, i, echoMsg, Earlier(sent)) :
                     /\ now' = now + d
                     /\ data' = ReadInto(data, Wire(isIPv6, p))
                     /\ lastPkt' = p
               /\ err' = "nil"
               /\ pc' = "decode"
               /\ UNCHANGED <<connVars, echoMsg, size, startTime>>
            \/ /\ deadline # 0
               /\ now < deadline
               /\ \E d \in 0..(deadline - now - 1) :
                  \E p \in Arrivals(isIPv6, pid, i, echoMsg, Earlier(sent)) :
                     /\ now' = now + d
                     /\ data' = ReadInto(data, Wire(isIPv6, p))
                     /\ lastPkt' = p
               /\ err' = "nil"
               /\ pc' = "decode"
               /\ UNCHANGED <<connVars, echoMsg, size, startTime>>
            \/ /\ deadline # 0
               /\ now' = IF now < deadline THEN deadline ELSE now
               /\ err' = "timeout"
               /\ lastPkt' = NoPacket
               /\ Return
            \/ /\ err' = "read"
               /\ lastPkt' = NoPacket
               /\ Return
               /\ UNCHANGED now
    /\ UNCHANGED <<inputVars, i, trans, recv, rtts, ttl, rtt, signalVars,
                   dials, writes, sent, seqs, notices, statsCount, report,
                   skipped, sendTime, snap, sleepCancel, raised>>

\* The header pingOnce parses off the buffer and the message after it.
ParseReply(v6, buf) ==
    IF v6
    THEN LET h == ParseIPv6Header(buf)
         IN IF h.err # "nil"
            THEN [err |-> h.err, ttlSet |-> FALSE, ttl |-> 0, msg |-> NoMessage]
            ELSE LET m == ParseMessage(ProtoICMPv6, buf)
                 IN [err |-> m.err, ttlSet |-> TRUE, ttl |-> h.HopLimit, msg |-> m]
    ELSE LET h == ParseIPv4Header(buf)
         IN IF h.err # "nil"
            THEN [err |-> h.err, ttlSet |-> FALSE, ttl |-> 0, msg |-> NoMessage]
            ELSE LET m == ParseMessage(ProtoICMP, SubSeq(buf, h.Len + 1, Len(buf)))
                 IN [err |-> m.err, ttlSet |-> TRUE, ttl |-> h.TTL, msg |-> m]

\* The rest of one pass of the receive loop: the header and the message are
\* parsed off the whole buffer; an Echo Reply ends the attempt with its RTT,
\* any other message is skipped.
Decode ==
    /\ pc = "decode"
    /\ LET r == ParseReply(isIPv6, data)
       IN /\ ttl' = IF r.ttlSet THEN r.ttl ELSE ttl
          /\ IF r.err # "nil"
             THEN /\ err' = r.err
                  /\ rtt' = rtt
                  /\ Return
                  /\ UNCHANGED <<skipped, sendTime>>
             ELSE IF IsEchoReply(Proto(isIPv6), r.msg)
             THEN LET body == BodyMarshal(r.msg)
                      rest == SubSeq(body, EchoPrefixLen + 1, Len(body))
                  IN IF Len(rest) < TimestampLen
                     THEN /\ Release
                          /\ pc' = "panic"
                          /\ UNCHANGED <<rtt, err, skipped, sendTime>>
                     ELSE /\ sendTime' = LittleEndianUint(SubSeq(rest, 1, TimestampLen))
                          /\ rtt' = now - sendTime'
                          /\ err' = "nil"
                          /\ Return
                          /\ UNCHANGED skipped
             ELSE /\ skipped' = TRUE
                  /\ pc' = "guard"
                  /\ UNCHANGED <<rtt, err, connVars, localVars, sendTime>>
    /\ UNCHANGED <<inputVars, now, i, trans, recv, rtts, signalVars, dials,
                   writes, sent, seqs, notices, statsCount, report, lastPkt,
                   snap, sleepCancel, raised>>


\* if err != nil { "Request timeout ..." } else { ... }
Check ==
    /\ pc = "check"
    /\ IF err # "nil"
       THEN /\ notices' = notices + 1
            /\ pc' = "trans"
       ELSE /\ pc' = "recv"
            /\ UNCHANGED notices
    /\ lastPkt' = NoPacket /\ skipped' = FALSE /\ sendTime' = 0
    /\ UNCHANGED <<inputVars, now, i, trans, recv, rtts, resultVars,
                   connVars, localVars, signalVars, dials, writes, sent,
                   seqs, statsCount, report, snap, sleepCancel, raised>>

\* s.recv++
Recv ==
    /\ pc = "recv"
    /\ recv' = recv + 1
    /\ pc' = "append"
    /\ UNCHANGED <<inputVars, now, i, trans, rtts, resultVars, connVars,
                   localVars, signalVars, historyVars>>

\* append(s.rtts, rtt)
AppendSampleNonZero(rs, r) == IF r > 0 THEN Append(rs, r) ELSE rs

AppendSample(rs, r) == Append(rs, r)

\* s.rtts = append(s.rtts, rtt) and the "Packet from" line.
AppendRtt ==
    /\ pc = "append"
    /\ rtts' = AppendSample(rtts, rtt)
    /\ pc' = "trans"
    /\ UNCHANGED <<inputVars, now, i, trans, recv, resultVars, connVars,
                   localVars, signalVars, historyVars>>

\* s.trans after s.trans++, which follows the if/else on err.
NextTransOnError(t, e) == IF e # "nil" THEN t + 1 ELSE t

NextTransOnSuccess(t, e) == IF e = "nil" THEN t + 1 ELSE t

NextTrans(t, e) == t + 1

\* s.trans++
Trans ==
    /\ pc = "trans"
    /\ trans' = NextTrans(trans, err)
    /\ pc' = "sleep"
    /\ UNCHANGED <<inputVars, now, i, recv, rtts, resultVars, connVars,
                   localVars, signalVars, historyVars>>

\* time.Sleep(time.Second)
Sleep ==
    /\ pc = "sleep"
    /\ now' = now + SleepTicks
    /\ pc' = "select"
    /\ UNCHANGED <<inputVars, i, trans, recv, rtts, resultVars, connVars,
                   localVars, signalVars, historyVars>>

\* case <-done: a value is queued on done.
CancelSeenNever(d) == FALSE

CancelSeen(d) == d > 0

\* Where main continues when the loop returns on cancellation: at stats(&s).
CancelTargetExit == "exit"

CancelTarget == "stats"

\* i after the i++ that ends an iteration whose pingOnce returned e.
NextIndexRetry(iv, e) == IF e # "nil" THEN iv ELSE iv + 1

NextIndex(iv, e) == iv + 1

\* select { case <-done: return; default: } and, on default, i++.
Select ==
    /\ pc = "select"
    /\ IF CancelSeen(done)
       THEN /\ done' = done - 1
            /\ pc' = CancelTarget
            /\ UNCHANGED i
       ELSE /\ i' = NextIndex(i, err)
            /\ pc' = "loop"
            /\ UNCHANGED done
    /\ ttl' = 0 /\ rtt' = 0 /\ err' = "nil"
    /\ snap' = NoSnap
    /\ UNCHANGED <<inputVars, now, trans, recv, rtts, connVars, localVars,
                   registered, sigCh, gpc, nsig, dials, writes, sent, seqs,
                   notices, statsCount, report, lastPkt, skipped, sendTime,
                   sleepCancel, raised>>

RECURSIVE RttMin(_, _, _)
\* rttMin after the first loop of stats: the least of rs[1..n].
RttMin(rs, n, k) ==
    IF k > n THEN rs[1]
    ELSE LET m == RttMin(rs, n, k + 1) IN IF rs[k] < m THEN rs[k] ELSE m

RECURSIVE RttMax(_, _, _)
\* rttMax after the first loop of stats: the greatest of rs[1..n].
RttMax(rs, n, k) ==
    IF k > n THEN rs[1]
    ELSE LET m == RttMax(rs, n, k + 1) IN IF rs[k] > m THEN rs[k] ELSE m

RECURSIVE RttSum(_, _, _)
\* rttAvg before it is divided by s.recv: the sum of rs[k..n].
RttSum(rs, n, k) == IF k > n THEN 0 ELSE rs[k] + RttSum(rs, n, k + 1)

RECURSIVE RttSquares(_, _, _, _)
\* rttStd before the division and the root, with every term scaled by
\* n * n: the sum over rs[k..n] of (n * rs[k] - sum) squared.
RttSquares(rs, n, sum, k) ==
    IF k > n THEN 0
    ELSE (n * rs[k] - sum) * (n * rs[k] - sum) + RttSquares(rs, n, sum, k + 1)

\* (1 - float64(s.recv) / float64(s.trans)) * 100.  With trans = 0 the
\* division gives NaN (0 / 0) or +Inf (recv / 0), and the loss is NaN or
\* -Inf.  Otherwise the loss is the fraction num / den, kept exact: the
\* rounding of the float64 operations and of "%.3f" is not modelled.
PacketLoss(t, r) ==
    IF t = 0
    THEN [kind |-> IF r = 0 THEN "NaN" ELSE "-Inf", num |-> 0, den |-> 0]
    ELSE [kind |-> "number", num |-> (t - r) * 100, den |-> t]

\* What stats(s) prints: the counters, the packet loss, and the minimum,
\* the maximum, the sum (the average is sum / recv) and the scaled sum of
\* squares (the deviation is the root of sqsum / recv^3) of the samples.
StatsReport(t, r, rs) ==
    LET loss == PacketLoss(t, r)
        sum == IF r > 0 THEN RttSum(rs, r, 1) ELSE 0
    IN [printed |-> TRUE, trans |-> t, recv |-> r,
        lossKind |-> loss.kind, lossNum |-> loss.num, lossDen |-> loss.den,
        min |-> IF r > 0 THEN RttMin(rs, r, 2) ELSE 0,
        max |-> IF r > 0 THEN RttMax(rs, r, 2) ELSE 0,
        sum |-> sum,
        sqsum |-> IF r > 0 THEN RttSquares(rs, r, sum, 1) ELSE 0]

\* stats(&s), after which main returns.
Stats ==
    /\ pc = "stats"
    /\ statsCount' = statsCount + 1
    /\ report' = StatsReport(trans, recv, rtts)
    /\ pc' = "exit"
    /\ UNCHANGED <<inputVars, now, i, trans, recv, rtts, resultVars,
                   connVars, localVars, signalVars, dials, writes, sent,
                   seqs, notices, lastPkt, skipped, sendTime, snap,
                   sleepCancel, raised>>

\* --------------------------------------------------------------- signals
\* SIGINT or SIGTERM after signal.Notify: queued on sigCh if there is room,
\* dropped otherwise.
Signal ==
    /\ Alive /\ registered
    /\ nsig < MaxSignals
    /\ nsig' = nsig + 1
    /\ sigCh' = IF sigCh < SigChCap THEN sigCh + 1 ELSE sigCh
    /\ UNCHANGED <<inputVars, now, mainVars, resultVars, connVars, localVars,
                   registered, done, gpc, historyVars>>

\* SIGINT or SIGTERM before signal.Notify: the default action ends the
\* process.
SignalEarly ==
    /\ Alive /\ ~registered
    /\ nsig < MaxSignals
    /\ nsig' = nsig + 1
    /\ pc' = "killed"
    /\ UNCHANGED <<inputVars, now, i, trans, recv, rtts, resultVars,
                   connVars, localVars, registered, sigCh, done, gpc,
                   historyVars>>

\* <-sigCh in the forwarding goroutine.
Forward ==
    /\ Alive /\ gpc = "recv"
    /\ sigCh > 0
    /\ sigCh' = sigCh - 1
    /\ gpc' = "send"
    /\ UNCHANGED <<inputVars, now, mainVars, resultVars, connVars, localVars,
                   registered, done, nsig, historyVars>>

\* done <- true in the forwarding goroutine, which then ends.
Raise ==
    /\ Alive /\ gpc = "send"
    /\ done < DoneCap
    /\ done' = done + 1
    /\ gpc' = "end"
    /\ sleepCancel' = IF pc = "sleep"
                      THEN [on |-> TRUE, dials |-> dials, writes |-> writes,
                            trans |-> trans]
                      ELSE sleepCancel
    /\ raised' = [on |-> TRUE, inflight |-> InPingOnce, dials |-> dials,
                  trans |-> trans, recv |-> recv, rtts |-> rtts]
    /\ UNCHANGED <<inputVars, now, mainVars, resultVars, connVars, localVars,
                   registered, sigCh, nsig, dials, writes, sent, seqs,
                   notices, statsCount, report, lastPkt, skipped, sendTime,
                   snap>>

Next ==
    \/ MainStart \/ Setup \/ Mode \/ LoopHead
    \/ Dial \/ Echo \/ Write \/ Guard \/ Read \/ Decode
    \/ Check \/ Recv \/ AppendRtt \/ Trans \/ Sleep \/ Select \/ Stats
    \/ Signal \/ SignalEarly \/ Forward \/ Raise

Spec == Init /\ [][Next]_vars

\* ------------------------------------------------------------ echo codec
\* The clock readings, process ids and sequence numbers for which the path
\* of the timestamp through echo and pingOnce is explored; the largest
\* reading leaves room for the deadline below 2^31.
Timestamps == {0, 1, 255, 256, 65535, 65536, 16777215, 16777216, 2147483392}
CodecPids == {0, 4660, 65535, 65537}
CodecSeqs == {0, 1, 255, 256, 65535}

\* pingOnce at the call of echo, its connection dialled, for any clock
\* reading, process id and sequence number.
CodecInit ==
    /\ nargs = 1 /\ hostOk = TRUE /\ count = 0
    /\ isIPv6 \in BOOLEAN
    /\ pid \in CodecPids
    /\ now \in Timestamps
    /\ i \in CodecSeqs
    /\ pc = "echo"
    /\ trans = 0 /\ recv = 0 /\ rtts = << >>
    /\ ttl = 0 /\ rtt = 0 /\ err = "nil"
    /\ open = 1 /\ deferred = TRUE /\ deadline = 0
    /\ echoMsg = << >> /\ size = 0 /\ data = << >> /\ startTime = 0
    /\ registered = TRUE /\ sigCh = 0 /\ done = 0 /\ gpc = "recv" /\ nsig = 0
    /\ dials = 1 /\ writes = 0 /\ seqs = <<i>> /\ notices = 0
    /\ statsCount = 0 /\ lastPkt = NoPacket /\ skipped = FALSE
    /\ sendTime = 0
    /\ snap = NoSnap /\ sleepCancel = NoCancel
    /\ raised = NoRaise /\ sent = << >> /\ report = NoReport

\* pingOnce from the call of echo to its return.
CodecNext == Echo \/ Write \/ Guard \/ Read \/ Decode

CodecSpec == CodecInit /\ [][CodecNext]_vars

\* ---------------------------------------------------------------- fairness
\* The steps of the main goroutine, but Echo, Read and Decode.
MainStep ==
    \/ MainStart \/ Setup \/ Mode \/ LoopHead
    \/ Dial \/ Write \/ Guard
    \/ Check \/ Recv \/ AppendRtt \/ Trans \/ Sleep \/ Select \/ Stats

\* Weak fairness of Echo, Read and Decode, without ENABLED: each of them is
\* enabled exactly when pc has its value and each of its steps changes pc,
\* so WF_vars of it says that pc does not keep that value for ever.
MainLeaves ==
    /\ []<>(pc # "echo")
    /\ []<>(pc # "read")
    /\ []<>(pc # "decode")

\* pingForever has run the MaxProbes iterations explored.
Capped == pc = "loop" /\ count = 0 /\ i >= MaxProbes

\* The scheduler runs both goroutines as long as they can take a step, and
\* the clock advances: the receive loop does not go round for ever in no
\* time.
FairSpec ==
    /\ Spec
    /\ WF_vars(MainStep)
    /\ MainLeaves
    /\ WF_vars(Forward)
    /\ WF_vars(Raise)
    /\ SF_vars(Guard /\ now' > now)


\* ---------------------------------------------------------------- claims
\* The loop has taken the done branch of its select: the forwarding
\* goroutine has sent its value and the value is gone.
CancelObserved == gpc = "end" /\ done = 0

\* The timestamp an arrived Echo Reply carries in its data.
PacketTimestamp(p) ==
    LittleEndianUint(SubSeq(p.icmp, 9, 8 + TimestampLen))

\* C1: at every iteration boundary of the probe loop (the loop head after a
\* completed iteration, and the exit of the loop), received <= transmitted
\* and the number of stored RTT samples equals received.
C1_IterationBoundary ==
    pc \in {"loop", "stats", "exit"} =>
        recv <= trans /\ Len(rtts) = recv

\* A boundary after two iterations of which one succeeded and one failed.
C1_Witness ==
    pc = "loop" /\ i = 2 /\ trans = 2 /\ recv = 1 /\ Len(rtts) = 1

\* C2: in bounded mode with count n >= 1 and no signal, when the loop is left
\* and the statistics are produced pingOnce has been called exactly n times,
\* with the sequence numbers 0..n-1, and transmitted = n.
C2_BoundedCount ==
    ((pc = "stats" \/ statsCount = 1) /\ count >= 1 /\ nsig = 0) =>
        /\ trans = count
        /\ dials = count
        /\ seqs = [k \in 1..count |-> k - 1]

\* Two probes, one answered and one not, no signal, statistics printed.
C2_Witness ==
    /\ pc = "exit" /\ statsCount = 1 /\ count = 2 /\ nsig = 0
    /\ trans = 2 /\ recv = 1

\* C3: when done is raised while the loop sleeps, the loop leaves at the
\* select after that sleep: no further Dial, no further Write, transmitted
\* stays, and the statistics are printed once.
C3_CancelInSleep ==
    sleepCancel.on =>
        /\ pc \in {"sleep", "select", "stats", "exit"}
        /\ dials = sleepCancel.dials
        /\ writes = sleepCancel.writes
        /\ trans = sleepCancel.trans
        /\ statsCount <= 1
        /\ (pc = "exit" <=> statsCount = 1)

\* done was raised during the sleep of an iteration that was not the last,
\* and the program has ended.
C3_Witness ==
    /\ sleepCancel.on /\ pc = "exit" /\ statsCount = 1
    /\ (count = 0 \/ i + 1 < count)

\* C4: once probing has started the statistics are printed exactly once,
\* after the loop is left (count exhausted or cancellation observed), and no
\* probe follows them.
C4_StatsOnce ==
    /\ [](/\ statsCount <= 1
          /\ (statsCount = 1 =>
                 /\ pc = "exit"
                 /\ \/ (count >= 1 /\ i = count)
                    \/ CancelObserved)
          /\ ((pc = "exit" /\ dials > 0) => statsCount = 1)
          /\ ((~Alive /\ dials > 0) => pc = "exit"))
    /\ [][statsCount >= 1 =>
             (dials' = dials /\ writes' = writes /\ trans' = trans)]_vars

\* Cancellation observed in the last iteration of a bounded run: both ways
\* out of the loop at once.
C4_Witness ==
    /\ pc = "exit" /\ statsCount = 1
    /\ count >= 1 /\ i = count - 1 /\ trans = count
    /\ CancelObserved

\* C5: a failure of pingOnce (dial, write, read, timeout, header, message)
\* stays in its iteration: no RTT sample, received unchanged, transmitted
\* one more, and the loop goes on to the next sequence number unless the
\* count is exhausted or cancellation is observed; the program never halts
\* on it.
C5_FailureIsLocal ==
    /\ [](/\ pc # "panic"
          /\ (err # "nil" /\ ~InPingOnce) =>
                /\ err \in {"dial", "write", "read", "timeout", "header", "message"}
                /\ pc \in {"check", "trans", "sleep", "select"}
                /\ recv = snap.recv /\ rtts = snap.rtts
                /\ trans = IF pc \in {"sleep", "select"}
                           THEN snap.trans + 1 ELSE snap.trans)
    /\ [][(pc = "select" /\ err # "nil" /\ pc' # pc) =>
             IF done > 0 THEN pc' = "stats"
             ELSE pc' = "loop" /\ i' = i + 1]_vars
    /\ [][(pc = "loop" /\ pc' # pc) =>
             IF count # 0 /\ i >= count THEN pc' = "stats"
             ELSE pc' = "dial" /\ i' = i]_vars

\* A second probe that fails on a header after a first probe that failed.
C5_Witness ==
    /\ pc = "select" /\ i = 1 /\ err = "header"
    /\ notices = 2 /\ trans = 2 /\ recv = 0 /\ rtts = << >>

\* C6: a message that is not an Echo Reply is skipped without ending the
\* attempt and without moving the read deadline; an Echo Reply read after
\* it ends the attempt with success, that reply's TTL and its RTT.
C6_SkipThenReply ==
    /\ (pc \in {"guard", "read", "decode"} => deadline = startTime + Timeout)
    /\ (pc = "check" /\ skipped /\ lastPkt.kind = "reply") =>
          /\ err = "nil"
          /\ ttl = lastPkt.hlim
          /\ rtt = now - PacketTimestamp(lastPkt)

\* C7: the connection of an attempt is closed on every return of pingOnce
\* that follows a successful dial: at most one connection is open, and none
\* outside pingOnce.
C7_ConnectionScoped ==
    /\ open \in {0, 1}
    /\ (open = 1 <=> deferred)
    /\ (~InPingOnce => open = 0)

\* The second attempt has returned through the expiry of the loop guard,
\* after a skipped message, and its connection is closed.
C7_Witness ==
    /\ pc = "check" /\ i = 1 /\ dials = 2 /\ writes = 2
    /\ skipped /\ err = "nil" /\ lastPkt.kind = "request"
    /\ open = 0

\* C8: when echo returns an error pingOnce gives the attempt up: nothing is
\* written, nothing is read, and the attempt returns as a failure.
C8_EncodeErrorAborts ==
    [][(pc = "write" /\ err = "marshal") =>
          /\ writes' = writes
          /\ pc' \in {"write", "check"}
          /\ (pc' = "check" => err' # "nil")]_vars

\* C9: an Echo Reply whose data is shorter than the timestamp makes pingOnce
\* return an error, and the program does not crash on it.
C9_TruncatedReplyFails ==
    /\ pc # "panic"
    /\ (pc = "check" /\ lastPkt.kind = "short") => err # "nil"

\* C10 as stated: in every reachable state received <= transmitted and the
\* number of RTT samples equals received.
C10_EveryState ==
    recv <= trans /\ Len(rtts) = recv

\* C10 amended: received <= transmitted and as many samples as received in
\* every state but those between s.recv++ and s.trans++; there received is
\* at most transmitted + 1, and before the append one sample is missing.
C10_Amended ==
    /\ (pc \notin {"append", "trans"} => (recv <= trans /\ Len(rtts) = recv))
    /\ (pc = "append" => (recv <= trans + 1 /\ Len(rtts) = recv - 1))
    /\ (pc = "trans" => (recv <= trans + 1 /\ Len(rtts) = recv))

\* Between the append and s.trans++ of a run whose probes all succeeded,
\* received is transmitted + 1.
C10_Witness ==
    pc = "trans" /\ i = 1 /\ recv = trans + 1 /\ Len(rtts) = recv

\* C11: a usage or resolution error (a number of arguments other than one,
\* a host without an address, a negative count) ends the program with no
\* probe performed: no Dial, no Write, transmitted 0.
C11_NoProbeOnUsageError ==
    (nargs # 1 \/ ~hostOk \/ count < 0) =>
        /\ pc \in {"main", "setup", "mode", "exit", "killed"}
        /\ dials = 0 /\ writes = 0 /\ trans = 0 /\ open = 0
        /\ seqs = << >>

\* A run with -c -1 and a host that resolves has ended, after the signals
\* were registered.
C11_Witness ==
    /\ pc = "exit" /\ count < 0 /\ nargs = 1 /\ hostOk /\ registered
    /\ dials = 0 /\ trans = 0

\* The last c.Read of the attempt returned an Echo Reply.
ReplyRead == lastPkt.kind # "none" /\ lastPkt.icmp[1] = EchoReplyType(isIPv6)

\* C14: pingOnce returns a nil error only when an Echo Reply was read
\* before the deadline; when the second passes without one, also after
\* skipped messages and the expiry of the loop guard, it returns an error.
C14_SuccessNeedsReply ==
    (pc = "check" /\ err = "nil") => ReplyRead

\* C17: no probe is retried: pingOnce is called with 0, 1, 2, ... in this
\* order, once each whatever the outcome, and transmitted = i when the
\* iteration for sequence number i begins.
C17_NoRetry ==
    /\ seqs = [k \in 1..Len(seqs) |-> k - 1]
    /\ dials = Len(seqs)
    /\ (pc = "dial" => (trans = i /\ Len(seqs) = i))
    /\ ((InPingOnce \/ pc \in {"check", "recv", "append", "trans", "sleep",
                              "select"}) => Len(seqs) = i + 1)

\* The attempt after a failed one has been started with the next sequence
\* number.
C17_Witness ==
    pc = "echo" /\ seqs = <<0, 1>> /\ notices = 1 /\ recv = 0 /\ trans = 1

\* C19: the hop limit a successful IPv6 probe returns is the hop limit of
\* the IP header of the reply.
C19_HopLimitOfReply ==
    (isIPv6 /\ pc = "check" /\ err = "nil" /\ lastPkt.kind = "reply") =>
        ttl = lastPkt.hlim

\* The identifier and the sequence number an arrived echo message carries.
PacketId(p) == BigEndianUint16(p.icmp, 5)
PacketSeq(p) == BigEndianUint16(p.icmp, 7)

\* The request the running attempt wrote, and the timestamp in its data.
OwnRequest == sent[Len(sent)]
RequestTimestamp(req) == LittleEndianUint(SubSeq(req, 9, 8 + TimestampLen))

\* C15: the Echo Reply that makes the probe with sequence number i succeed
\* answers the request of that probe: it carries the identifier of the
\* process and the sequence number i, and the RTT is counted from the
\* timestamp of request i; a late reply to an earlier probe and a reply to
\* another identifier are not taken.
C15_OwnReplyOnly ==
    (pc = "check" /\ err = "nil" /\ ReplyRead) =>
        /\ PacketId(lastPkt) = pid % 65536
        /\ PacketSeq(lastPkt) = i
        /\ (Len(lastPkt.icmp) = Len(OwnRequest) =>
               rtt = now - RequestTimestamp(OwnRequest))

\* C18: done raised while pingOnce runs does not cut the attempt: no
\* further attempt is started, and when the loop consults done the attempt
\* has been recorded (transmitted one more; on success received one more and
\* the RTT appended, on failure both unchanged).  Whenever done is raised,
\* at most one further attempt is started.
C18_NoPreemption ==
    raised.on =>
        /\ dials <= raised.dials + 1
        /\ raised.inflight =>
              /\ dials = raised.dials
              /\ pc \in {"echo", "write", "guard", "read", "decode", "check",
                         "recv", "append", "trans", "sleep", "select",
                         "stats", "exit"}
              /\ (pc \in {"sleep", "select", "stats", "exit"} =>
                     trans = raised.trans + 1)
              /\ (pc \in {"sleep", "select"} =>
                     IF err = "nil"
                     THEN recv = raised.recv + 1
                          /\ rtts = Append(raised.rtts, rtt)
                     ELSE recv = raised.recv /\ rtts = raised.rtts)
              /\ (pc \in {"stats", "exit"} =>
                     /\ recv \in {raised.recv, raised.recv + 1}
                     /\ Len(rtts) = recv)

\* done was raised during an attempt that was not the last and then
\* succeeded; the attempt was counted and the program has ended.
C18_Witness ==
    /\ raised.on /\ raised.inflight /\ pc = "exit" /\ statsCount = 1
    /\ recv = raised.recv + 1 /\ trans = raised.trans + 1
    /\ (count = 0 \/ raised.trans + 1 < count)

\* C20: when the statistics are computed transmitted >= 1 and the packet
\* loss is a number: done is consulted only after a whole iteration, and a
\* run that ends with transmitted = 0 has not called stats.
C20_StatsAfterProbe ==
    /\ (pc \in {"select", "stats"} => trans >= 1)
    /\ (statsCount >= 1 =>
           /\ trans >= 1
           /\ report.printed /\ report.lossKind = "number"
           /\ report.trans = trans /\ report.recv = recv)
    /\ ((~Alive /\ trans = 0) => (statsCount = 0 /\ ~report.printed))

\* done was raised before the first probe of an unbounded run; the
\* statistics have been printed after one probe.
C20_Witness ==
    /\ statsCount = 1 /\ count = 0 /\ raised.on /\ raised.dials = 0
    /\ trans = 1 /\ report.trans = 1 /\ report.lossKind = "number"

\* C12: a signal delivered once the signals are registered and the probe
\* loop is to run (any count but a negative one) is forwarded: the send on
\* done never blocks, done is raised unless the program ends first, the loop
\* is left once done is raised, also in unbounded mode, and the statistics
\* are printed.
C12_GracefulCancel ==
    /\ [](gpc = "send" => done < DoneCap)
    /\ ((registered /\ nsig >= 1 /\ count >= 0) ~>
           (gpc = "end" \/ ~Alive \/ Capped))
    /\ ((done > 0 /\ count >= 0 /\ ~Capped) ~> (statsCount = 1 /\ pc = "exit"))
    /\ ((registered /\ nsig >= 1 /\ count >= 0) ~> (statsCount = 1 \/ Capped))

\* An unbounded run in which done was raised while pingOnce was waiting for
\* the reply has printed its statistics.
C12_Witness ==
    /\ count = 0 /\ nsig >= 1 /\ raised.on /\ raised.inflight
    /\ raised.dials = 1 /\ statsCount = 1 /\ pc = "exit" /\ report.trans = 1

\* C16: every attempt ends: once pingOnce is entered it returns, whether
\* the reply is lost, the read fails, or messages that are not Echo Replies
\* keep arriving; while it waits the deadline stands one second after
\* startTime and the clock is never more than one lag past it.
C16_AttemptTerminates ==
    /\ [](pc \in {"guard", "read", "decode"} =>
             /\ deadline = startTime + Timeout
             /\ now <= deadline + MaxLag)
    /\ [](pc # "blocked")
    /\ (InPingOnce ~> pc = "check")

\* An attempt that skipped a message and then ran into the deadline has
\* returned.
C16_Witness ==
    pc = "check" /\ err = "timeout" /\ skipped /\ i = 1 /\ now >= 15

\* C13: the timestamp echo writes into the first eight bytes of the data,
\* low byte first, is the sendTime pingOnce decodes from bytes 4..12 of the
\* marshalled body of the reply, for every identifier and sequence number:
\* the request read back low byte first gives the clock reading of echo,
\* and the sendTime decoded from the reply to the request is the timestamp
\* of the request.
C13_TimestampRoundTrip ==
    /\ (pc = "write" /\ err = "nil") => RequestTimestamp(echoMsg) = now
    /\ (pc = "check" /\ err = "nil" /\ lastPkt.kind = "reply") =>
           /\ sendTime = RequestTimestamp(OwnRequest)
           /\ sendTime \in Timestamps
           /\ rtt = now - sendTime

\* The largest timestamp explored has come back through an IPv6 reply to a
\* process whose id does not fit the 16-bit identifier.
C13_Witness ==
    /\ pc = "check" /\ err = "nil" /\ lastPkt.kind = "reply"
    /\ sendTime = 2147483392 /\ isIPv6 /\ pid > 65535 /\ i = 65535

====
